---- MODULE Spec2Model ----
(***************************************************************************)
(* Adversarially robust distillation (main.py): the PGD attack             *)
(* (AttackPGD.forward) and the training script (main, train, test,         *)
(* adjust_learning_rate) as state machines.                                *)
(*                                                                         *)
(* Tensors are abstracted as follows.                                      *)
(*  - A network's parameters are a symbolic term: the name of the value    *)
(*    they were initialised from and the sequence of optimizer updates     *)
(*    applied since.  Two parameter values are equal iff the terms are.    *)
(*  - A .grad field is the set of batches whose loss was accumulated into  *)
(*    it since it was last cleared.                                        *)
(*  - Pixel values of the attack live on an integer grid: 0 is 0.0 and     *)
(*    Scale is 1.0.                                                        *)
(*  - The learning rate is an integer number of 1e-4 units.                *)
(***************************************************************************)
EXTENDS Integers, Sequences, FiniteSets, TLC

\* ---------------------------------------------------------------- bounds
MaxEpochs == 3
NumBatches == 2
NumTestBatches == 2
MaxPeriod == 2
\* the attack: pixels per tensor, grid points per unit, largest epsilon,
\* step_size and num_steps
NPix == 1
Scale == 3
MaxEps == 2
MaxStep == 2
MaxNumSteps == 2

\* ------------------------------------------------------ program constants
\* --lr default 0.1, in units of 1e-4
LrDefault == 1000
\* --lr_factor default 0.1 = 1 / LrFactorDen
LrFactorDen == 10
\* --temp default 30.0
TempDefault == 30

VARIABLES
    args,            \* parsed command line
    device,          \* 'cuda' if torch.cuda.is_available() else 'cpu'
    NT_pth,          \* what is found at ./checkpoint/NT_.pth
    pc,              \* position of the script
    err,             \* position at which an exception was raised, or "none"
    epoch,           \* main's loop variable
    lr,              \* main's local lr
    basic_net,       \* the student
    teacher_net,     \* the teacher
    optimizer,       \* optim.SGD instance
    attack_model,    \* the network AttackPGD wraps in train / test
    batch_idx,       \* loop variable of train / test
    outputs,         \* logits returned by the attack
    teacher_outputs, \* teacher_net(inputs)
    basic_outputs,   \* basic_net(inputs)
    loss,            \* the blended loss of the current batch
    train_loss,      \* running sum of loss.item()
    tally,           \* adv_correct, natural_correct, total of test
    saved,           \* the torch.save calls of the run, in order
    config,          \* epsilon, step_size, num_steps of an AttackPGD
    inputs,          \* the batch AttackPGD.forward is called on
    noise,           \* the draw of uniform_(-epsilon, epsilon)
    x,               \* the perturbed input
    i,               \* loop variable of AttackPGD.forward
    calls,           \* how often forward has evaluated attack_model
    apc              \* position inside AttackPGD.forward

cfgVars == <<args, device, NT_pth>>
netVars == <<basic_net, teacher_net, optimizer>>
localVars == <<attack_model, batch_idx, outputs, teacher_outputs, basic_outputs,
               loss, train_loss, tally>>
pgdVars == <<config, inputs, noise, x, i, calls, apc>>
scriptVars == <<args, device, NT_pth, pc, err, epoch, lr, basic_net, teacher_net,
                optimizer, attack_model, batch_idx, outputs, teacher_outputs,
                basic_outputs, loss, train_loss, tally, saved>>
vars == <<scriptVars, pgdVars>>

\* ----------------------------------------------------------------- values
KnownModels == {"MobileNetV2", "WideResNet", "ResNet18"}

\* A parameter term: initial value and the optimizer updates applied to it.
FreshParams(name) == [init |-> name, updates |-> <<>>]

NoGrad == [is_none |-> TRUE, terms |-> {}]

Unbound == [bound |-> FALSE, params |-> FreshParams("unbound"),
            requires_grad |-> FALSE, training |-> FALSE, grad |-> NoGrad]

\* nn.Module after construction: training mode, parameters requiring grad.
NewModule(name) == [bound |-> TRUE, params |-> FreshParams(name),
                    requires_grad |-> TRUE, training |-> TRUE, grad |-> NoGrad]

NoOptimizer == [built |-> FALSE, lr |-> 0, params |-> {}, momentum |-> <<>>]

NoOutputs == [net |-> "none", params |-> FreshParams("none"), batch |-> <<>>]

NoLoss == [value |-> "none", graph |-> {}, batch |-> <<>>]

NoTally == [adv_correct |-> 0, natural_correct |-> 0, total |-> 0]

Net(name) == IF name = "teacher_net" THEN teacher_net ELSE basic_net

\* lr *= args.lr_factor
TimesLrFactor(l) == l \div LrFactorDen

\* The optimizer built over the parameters of both networks.
OptimizerParams_Both == {"basic_net", "teacher_net"}

\* optim.SGD(basic_net.parameters(), ...): the networks whose parameters the
\* optimizer updates.
OptimizerParams == {"basic_net"}

\* AttackPGD(basic_net, config): the network the attack is run against.
AttackTarget == "basic_net"

\* An uncaught exception: the interpreter unwinds and the process exits.
Crash(at) == pc' = "crashed" /\ err' = at

\* ------------------------------------------------------------------ Init
Pixels == 1..NPix

Zeros == [p \in Pixels |-> 0]

\* No attack in progress.
PGDIdle ==
    /\ config = [epsilon |-> 0, step_size |-> 0, num_steps |-> 0]
    /\ inputs = Zeros
    /\ noise = Zeros
    /\ x = Zeros
    /\ i = 0
    /\ calls = 0
    /\ apc = "idle"

Init ==
    /\ PGDIdle
    /\ args \in [lr_schedule : (SUBSET (0..(MaxEpochs - 1))) \ {{}},
                 epochs : 0..MaxEpochs,
                 save_period : 0..MaxPeriod,
                 val_period : 0..MaxPeriod,
                 temp : {-1, 0, TempDefault},
                 teacher_model : {"ResNet18", "VGG"},
                 teacher_path : {"", "./chekpoint/"}]
    /\ device \in {"cuda", "cpu"}
    /\ NT_pth \in {"ok", "absent", "malformed"}
    /\ pc = "main"
    /\ err = "none"
    /\ epoch = 0
    /\ lr = 0
    /\ basic_net = Unbound
    /\ teacher_net = Unbound
    /\ optimizer = NoOptimizer
    /\ attack_model = "none"
    /\ batch_idx = 0
    /\ outputs = NoOutputs
    /\ teacher_outputs = NoOutputs
    /\ basic_outputs = NoOutputs
    /\ loss = NoLoss
    /\ train_loss = 0
    /\ tally = NoTally
    /\ saved = <<>>

\* ------------------------------------------------------------------ main
\* Building the student and the teacher.  The student is built from the
\* default --model; an unrecognised --teacher_model binds no teacher_net and
\* teacher_net.to(device) raises.
Main_Build ==
    /\ pc = "main"
    /\ basic_net' = NewModule("basic_net_init")
    /\ IF args.teacher_path # ""
       THEN IF args.teacher_model \in KnownModels
            THEN /\ teacher_net' = [NewModule("teacher_init")
                                       EXCEPT !.requires_grad = FALSE]
                 /\ pc' = "load_teacher"
                 /\ err' = err
            ELSE /\ teacher_net' = teacher_net
                 /\ Crash("main")
       ELSE /\ teacher_net' = teacher_net
            /\ pc' = "load_teacher"
            /\ err' = err
    /\ UNCHANGED <<pgdVars, cfgVars, epoch, lr, optimizer, localVars, saved>>

\* A load that goes on whatever is found at the path.
TeacherLoads_Lenient ==
    /\ teacher_net.bound
    /\ device = "cuda"

\* torch.load succeeds only on a well-formed file; its map_location moves
\* every storage to cuda:0, which raises where no cuda device exists.
TeacherLoads ==
    /\ teacher_net.bound
    /\ NT_pth = "ok"
    /\ device = "cuda"

Main_LoadTeacher ==
    /\ pc = "load_teacher"
    /\ IF TeacherLoads
       THEN /\ teacher_net' = [teacher_net EXCEPT
                                  !.params = FreshParams("NT_.pth"),
                                  !.training = FALSE]
            /\ pc' = "optimizer"
            /\ err' = err
       ELSE /\ teacher_net' = teacher_net
            /\ Crash("load_teacher")
    /\ UNCHANGED <<pgdVars, cfgVars, epoch, lr, basic_net, optimizer, localVars, saved>>

Main_Optimizer ==
    /\ pc = "optimizer"
    /\ lr' = LrDefault
    /\ optimizer' = [built |-> TRUE, lr |-> LrDefault,
                     params |-> OptimizerParams, momentum |-> <<>>]
    /\ epoch' = 0
    /\ pc' = "epoch"
    /\ UNCHANGED <<pgdVars, cfgVars, err, basic_net, teacher_net, localVars, saved>>

\* adjust_learning_rate(optimizer, epoch, lr): lr is the callee's own copy of
\* main's lr.
adjust_learning_rate(l) ==
    IF epoch \in args.lr_schedule
    THEN [optimizer EXCEPT !.lr = TimesLrFactor(l)]
    ELSE optimizer

\* for epoch in range(args.epochs): adjust_learning_rate(...), then train.
Main_Epoch ==
    /\ pc = "epoch"
    /\ IF epoch < args.epochs
       THEN /\ optimizer' = adjust_learning_rate(lr)
            /\ pc' = "train"
       ELSE /\ optimizer' = optimizer
            /\ pc' = "done"
    /\ UNCHANGED <<pgdVars, cfgVars, err, epoch, lr, basic_net, teacher_net, localVars, saved>>

\* ----------------------------------------------------------------- train
ThisBatch == <<epoch, batch_idx>>

\* Position after the header of a "for batch_idx, ... in enumerate(loader)".
TrainLoop(idx) == IF idx < NumBatches THEN "zero_grad" ELSE "save"

\* basic_net.train(); attack_model = AttackPGD(basic_net, config); train_loss = 0
Train_Begin ==
    /\ pc = "train"
    /\ basic_net' = [basic_net EXCEPT !.training = TRUE]
    /\ attack_model' = AttackTarget
    /\ train_loss' = 0
    /\ batch_idx' = 0
    /\ pc' = TrainLoop(0)
    /\ UNCHANGED <<pgdVars, cfgVars, err, epoch, lr, teacher_net, optimizer, outputs,
                   teacher_outputs, basic_outputs, loss, tally, saved>>

\* zero_grad left out.
ZeroGrad_Skipped(net, name) == net

\* optimizer.zero_grad() on one network: every .grad of the optimizer's
\* parameters that exists is cleared.
ZeroGrad(net, name) ==
    IF name \in optimizer.params /\ ~net.grad.is_none
    THEN [net EXCEPT !.grad = [is_none |-> FALSE, terms |-> {}]]
    ELSE net

Train_ZeroGrad ==
    /\ pc = "zero_grad"
    /\ basic_net' = ZeroGrad(basic_net, "basic_net")
    /\ teacher_net' = ZeroGrad(teacher_net, "teacher_net")
    /\ pc' = "attack"
    /\ UNCHANGED <<pgdVars, cfgVars, err, epoch, lr, optimizer, localVars, saved>>

\* What attack_model(inputs, targets) returns: the logits of the attacked
\* network, with its parameters as they are at the call.  Inside, the
\* gradient is taken by torch.autograd.grad with respect to x alone, which
\* fills no .grad field.
AttackOutputs == [net |-> attack_model, params |-> Net(attack_model).params,
                  batch |-> ThisBatch]

Train_Attack ==
    /\ pc = "attack"
    /\ outputs' = AttackOutputs
    /\ pc' = "teacher_fwd"
    /\ UNCHANGED <<pgdVars, cfgVars, err, epoch, lr, netVars, attack_model, batch_idx,
                   teacher_outputs, basic_outputs, loss, train_loss, tally, saved>>

Forward(name) == [net |-> name, params |-> Net(name).params, batch |-> ThisBatch]

Train_TeacherForward ==
    /\ pc = "teacher_fwd"
    /\ teacher_outputs' = Forward("teacher_net")
    /\ pc' = "basic_fwd"
    /\ UNCHANGED <<pgdVars, cfgVars, err, epoch, lr, netVars, attack_model, batch_idx,
                   outputs, basic_outputs, loss, train_loss, tally, saved>>

Train_BasicForward ==
    /\ pc = "basic_fwd"
    /\ basic_outputs' = Forward("basic_net")
    /\ pc' = "loss"
    /\ UNCHANGED <<pgdVars, cfgVars, err, epoch, lr, netVars, attack_model, batch_idx,
                   outputs, teacher_outputs, loss, train_loss, tally, saved>>

\* basic_outputs / args.temp and outputs / args.temp: a tensor divided by
\* zero is inf or nan, no exception; any other temperature gives a number.
LossValue == IF args.temp = 0 THEN "nan" ELSE "finite"

\* The blended loss reads basic_outputs and outputs (teacher_outputs is not
\* an operand).
BlendedLoss == [value |-> LossValue,
                graph |-> {basic_outputs.net, outputs.net},
                batch |-> ThisBatch]

Train_Loss ==
    /\ pc = "loss"
    /\ loss' = BlendedLoss
    /\ pc' = "backward"
    /\ UNCHANGED <<pgdVars, cfgVars, err, epoch, lr, netVars, attack_model, batch_idx,
                   outputs, teacher_outputs, basic_outputs, train_loss, tally, saved>>

\* loss.backward() on one network: the gradient of the loss is added to the
\* .grad of the parameters in its graph that require grad.
Backward(net, name) ==
    IF name \in loss.graph /\ net.requires_grad
    THEN [net EXCEPT !.grad = [is_none |-> FALSE,
                               terms |-> net.grad.terms \cup {loss.batch}]]
    ELSE net

Train_Backward ==
    /\ pc = "backward"
    /\ basic_net' = Backward(basic_net, "basic_net")
    /\ teacher_net' = Backward(teacher_net, "teacher_net")
    /\ pc' = "step"
    /\ UNCHANGED <<pgdVars, cfgVars, err, epoch, lr, optimizer, localVars, saved>>

\* optimizer.step() on one network: SGD updates the parameters of its
\* param_groups whose .grad is not None.
Steps(net, name) == name \in optimizer.params /\ ~net.grad.is_none

Step(net, name) ==
    IF Steps(net, name)
    THEN [net EXCEPT !.params.updates =
              Append(@, [lr |-> optimizer.lr, grad |-> net.grad.terms])]
    ELSE net

Train_Step ==
    /\ pc = "step"
    /\ basic_net' = Step(basic_net, "basic_net")
    /\ teacher_net' = Step(teacher_net, "teacher_net")
    /\ optimizer' = [optimizer EXCEPT !.momentum =
           Append(@, UNION {Net(n).grad.terms : n \in optimizer.params})]
    /\ pc' = "accum"
    /\ UNCHANGED <<pgdVars, cfgVars, err, epoch, lr, localVars, saved>>

\* train_loss += loss.item(), and on to the next batch.
Train_Accumulate ==
    /\ pc = "accum"
    /\ train_loss' = train_loss + 1
    /\ batch_idx' = batch_idx + 1
    /\ pc' = TrainLoop(batch_idx + 1)
    /\ UNCHANGED <<pgdVars, cfgVars, err, epoch, lr, netVars, attack_model, outputs,
                   teacher_outputs, basic_outputs, loss, tally, saved>>

\* state = {'net': basic_net.state_dict(), 'optimizer': optimizer.state_dict()}
Checkpoint == [epoch |-> epoch, net |-> basic_net.params,
               optimizer |-> [lr |-> optimizer.lr, momentum |-> optimizer.momentum]]

\* The save condition taken on epoch instead of epoch+1.
SaveDue_OffByOne == epoch % args.save_period = 0

\* if (epoch+1) % args.save_period == 0
SaveDue == (epoch + 1) % args.save_period = 0

\* The end of train: the periodic torch.save, then return (the locals of
\* train go away).  A save_period of 0 raises ZeroDivisionError.
Train_Save ==
    /\ pc = "save"
    /\ IF args.save_period = 0
       THEN /\ Crash("save")
            /\ UNCHANGED <<saved, localVars>>
       ELSE /\ saved' = IF SaveDue THEN Append(saved, Checkpoint) ELSE saved
            /\ pc' = "val"
            /\ err' = err
            /\ attack_model' = "none"
            /\ batch_idx' = 0
            /\ outputs' = NoOutputs
            /\ teacher_outputs' = NoOutputs
            /\ basic_outputs' = NoOutputs
            /\ loss' = NoLoss
            /\ train_loss' = 0
            /\ tally' = tally
    /\ UNCHANGED <<pgdVars, cfgVars, epoch, lr, netVars>>

\* if (epoch+1) % args.val_period == 0: test(...).  A val_period of 0 raises
\* ZeroDivisionError.
Main_Val ==
    /\ pc = "val"
    /\ IF args.val_period = 0
       THEN /\ Crash("val")
            /\ epoch' = epoch
       ELSE IF (epoch + 1) % args.val_period = 0
            THEN /\ pc' = "test"
                 /\ UNCHANGED <<err, epoch>>
            ELSE /\ pc' = "epoch"
                 /\ epoch' = epoch + 1
                 /\ err' = err
    /\ UNCHANGED <<pgdVars, cfgVars, lr, netVars, localVars, saved>>

\* ------------------------------------------------------------------ test
TestLoop(idx) == IF idx < NumTestBatches THEN "test_attack" ELSE "test_end"

\* basic_net.eval(); attack_model = AttackPGD(basic_net, config); counters = 0
Test_Begin ==
    /\ pc = "test"
    /\ basic_net' = [basic_net EXCEPT !.training = FALSE]
    /\ attack_model' = AttackTarget
    /\ tally' = NoTally
    /\ batch_idx' = 0
    /\ pc' = TestLoop(0)
    /\ UNCHANGED <<pgdVars, cfgVars, err, epoch, lr, teacher_net, optimizer, outputs,
                   teacher_outputs, basic_outputs, loss, train_loss, saved>>

\* The evaluation batch followed by an optimizer step, as in train.
Test_Attack_Steps ==
    /\ pc = "test_attack"
    /\ outputs' = AttackOutputs
    /\ basic_net' = [basic_net EXCEPT !.params.updates =
           Append(@, [lr |-> optimizer.lr, grad |-> basic_net.grad.terms])]
    /\ pc' = "test_natural"
    /\ UNCHANGED <<pgdVars, cfgVars, err, epoch, lr, teacher_net, optimizer,
                   attack_model, batch_idx, teacher_outputs, basic_outputs, loss,
                   train_loss, tally, saved>>

\* adv_outputs, pert_inputs = attack_model(inputs, targets)
Test_Attack ==
    /\ pc = "test_attack"
    /\ outputs' = AttackOutputs
    /\ pc' = "test_natural"
    /\ UNCHANGED <<pgdVars, cfgVars, err, epoch, lr, netVars, attack_model, batch_idx,
                   teacher_outputs, basic_outputs, loss, train_loss, tally, saved>>

\* natural_outputs = basic_net(inputs) and the three counters; a batch holds
\* one sample here, predicted rightly or wrongly.
Test_Natural ==
    /\ pc = "test_natural"
    /\ basic_outputs' = Forward("basic_net")
    /\ \E adv \in 0..1, nat \in 0..1 :
          tally' = [adv_correct |-> tally.adv_correct + adv,
                    natural_correct |-> tally.natural_correct + nat,
                    total |-> tally.total + 1]
    /\ batch_idx' = batch_idx + 1
    /\ pc' = TestLoop(batch_idx + 1)
    /\ UNCHANGED <<pgdVars, cfgVars, err, epoch, lr, netVars, attack_model, outputs,
                   teacher_outputs, loss, train_loss, saved>>

\* robust_acc = 100.*adv_correct/total, ...; return to main's loop.
Test_End ==
    /\ pc = "test_end"
    /\ IF tally.total = 0
       THEN /\ Crash("test_end")
            /\ UNCHANGED <<epoch, localVars>>
       ELSE /\ pc' = "epoch"
            /\ epoch' = epoch + 1
            /\ err' = err
            /\ attack_model' = "none"
            /\ batch_idx' = 0
            /\ outputs' = NoOutputs
            /\ basic_outputs' = NoOutputs
            /\ tally' = NoTally
            /\ UNCHANGED <<teacher_outputs, loss, train_loss>>
    /\ UNCHANGED <<pgdVars, cfgVars, lr, netVars, saved>>

\* ------------------------------------------------------------ exceptions
\* The statements that call into the tensor library or the file system can
\* raise (out of memory, a full disk, ...).  Nothing in main.py catches.
Fallible == {"attack", "teacher_fwd", "basic_fwd", "loss", "backward", "step",
             "save", "test_attack", "test_natural"}

\* The failed batch started again.
RaiseException_Retry ==
    /\ pc \in Fallible
    /\ err' = pc
    /\ pc' = IF pc = "save" THEN "crashed"
             ELSE IF pc \in {"test_attack", "test_natural"} THEN "test_attack"
             ELSE "zero_grad"
    /\ UNCHANGED <<pgdVars, cfgVars, epoch, lr, netVars, localVars, saved>>

RaiseException ==
    /\ pc \in Fallible
    /\ Crash(pc)
    /\ UNCHANGED <<pgdVars, cfgVars, epoch, lr, netVars, localVars, saved>>

\* ------------------------------------------------------------------ Spec
Next ==
    \/ Main_Build
    \/ Main_LoadTeacher
    \/ Main_Optimizer
    \/ Main_Epoch
    \/ Train_Begin
    \/ Train_ZeroGrad
    \/ Train_Attack
    \/ Train_TeacherForward
    \/ Train_BasicForward
    \/ Train_Loss
    \/ Train_Backward
    \/ Train_Step
    \/ Train_Accumulate
    \/ Train_Save
    \/ Main_Val
    \/ Test_Begin
    \/ Test_Attack
    \/ Test_Natural
    \/ Test_End
    \/ RaiseException

Spec == Init /\ [][Next]_vars

\* ------------------------------------------------------ AttackPGD.forward
Max(a, b) == IF a >= b THEN a ELSE b

Min(a, b) == IF a <= b THEN a ELSE b

\* x.detach() + self.step_size*torch.sign(grad.detach())
Ascend(v, sign) == [p \in Pixels |-> v[p] + config.step_size * sign[p]]

\* torch.min(torch.max(x, inputs - self.epsilon), inputs + self.epsilon)
Project(v) ==
    [p \in Pixels |-> Min(Max(v[p], inputs[p] - config.epsilon),
                          inputs[p] + config.epsilon)]

\* The clamp with its upper limit left out.
Clamp_NoUpper(v) == [p \in Pixels |-> Max(v[p], 0)]

\* torch.clamp(x, 0.0, 1.0)
Clamp(v) == [p \in Pixels |-> Min(Max(v[p], 0), Scale)]

\* A call of forward: a batch with values in [0,1], and an attack
\* configuration with epsilon >= 0.
InitPGD ==
    /\ config \in [epsilon : 0..MaxEps, step_size : 0..MaxStep,
                   num_steps : 0..MaxNumSteps]
    /\ inputs \in [Pixels -> 0..Scale]
    /\ noise = Zeros
    /\ x = Zeros
    /\ i = 0
    /\ calls = 0
    /\ apc = "call"
    /\ args = [lr_schedule |-> {0}, epochs |-> 0, save_period |-> 1,
               val_period |-> 1, temp |-> TempDefault,
               teacher_model |-> "ResNet18", teacher_path |-> "./chekpoint/"]
    /\ device = "cuda"
    /\ NT_pth = "ok"
    /\ pc = "main"
    /\ err = "none"
    /\ epoch = 0
    /\ lr = 0
    /\ basic_net = Unbound
    /\ teacher_net = Unbound
    /\ optimizer = NoOptimizer
    /\ attack_model = "none"
    /\ batch_idx = 0
    /\ outputs = NoOutputs
    /\ teacher_outputs = NoOutputs
    /\ basic_outputs = NoOutputs
    /\ loss = NoLoss
    /\ train_loss = 0
    /\ tally = NoTally
    /\ saved = <<>>

\* The start of forward with the noisy input clamped to [0,1].
PGD_Start_Clamped ==
    /\ apc = "call"
    /\ \E n \in [Pixels -> (-config.epsilon)..config.epsilon] :
          /\ noise' = n
          /\ x' = Clamp([p \in Pixels |-> inputs[p] + n[p]])
    /\ i' = 0
    /\ apc' = "loop"
    /\ UNCHANGED <<scriptVars, config, inputs, calls>>

\* x = inputs.detach(); x = x + torch.zeros_like(x).uniform_(-eps, eps)
PGD_Start ==
    /\ apc = "call"
    /\ \E n \in [Pixels -> (-config.epsilon)..config.epsilon] :
          /\ noise' = n
          /\ x' = [p \in Pixels |-> inputs[p] + n[p]]
    /\ i' = 0
    /\ apc' = "loop"
    /\ UNCHANGED <<scriptVars, config, inputs, calls>>

\* One pass of the loop body: attack_model(x) is evaluated, the gradient of
\* the loss with respect to x has some sign in every element, x takes the
\* signed step, is projected and clamped.
PGD_Iterate ==
    /\ apc = "loop"
    /\ i < config.num_steps
    /\ \E sign \in [Pixels -> {-1, 0, 1}] :
          x' = Clamp(Project(Ascend(x, sign)))
    /\ calls' = calls + 1
    /\ i' = i + 1
    /\ UNCHANGED <<scriptVars, config, inputs, noise, apc>>

\* return self.attack_model(x), x
PGD_Return ==
    /\ apc = "loop"
    /\ i >= config.num_steps
    /\ calls' = calls + 1
    /\ apc' = "done"
    /\ UNCHANGED <<scriptVars, config, inputs, noise, x, i>>

NextPGD ==
    \/ PGD_Start
    \/ PGD_Iterate
    \/ PGD_Return

SpecPGD == InitPGD /\ [][NextPGD]_vars

\* ------------------------------------------------ properties of the script
\* Positions inside train, inside its batch loop, and inside test.
TrainPcs == {"train", "zero_grad", "attack", "teacher_fwd", "basic_fwd", "loss",
             "backward", "step", "accum", "save"}

BatchPcs == {"zero_grad", "attack", "teacher_fwd", "basic_fwd", "loss",
             "backward", "step"}

TestPcs == {"test", "test_attack", "test_natural", "test_end"}

\* C2: during epoch e the optimizer's rate is the initial rate times
\* lr_factor once for every milestone m <= e.
LrScheduleCompounds ==
    LET RECURSIVE Decayed(_, _)
        Decayed(l, k) == IF k = 0 THEN l ELSE Decayed(l \div LrFactorDen, k - 1)
        passed == {m \in args.lr_schedule : m <= epoch}
    IN  pc \in TrainPcs => optimizer.lr = Decayed(LrDefault, Cardinality(passed))

\* C3: once loaded, the teacher's parameters keep their loaded value and
\* receive no gradient, and the optimizer updates the student alone.
TeacherFrozen ==
    /\ (pc \notin {"main", "load_teacher"} /\ err \notin {"main", "load_teacher"}) =>
          /\ teacher_net.params = FreshParams("NT_.pth")
          /\ teacher_net.grad = NoGrad
    /\ optimizer.built => optimizer.params = {"basic_net"}

\* A finished run of MaxEpochs epochs: every batch has stepped the student.
TeacherFrozen_Witness ==
    /\ pc = "done"
    /\ args.epochs >= 2
    /\ Len(basic_net.params.updates) = args.epochs * NumBatches
    /\ teacher_net.params = FreshParams("NT_.pth")

\* C4: in a run without failure, with save_period >= 1, a checkpoint keyed
\* by e exists for a completed epoch e iff (e+1) mod save_period = 0, and
\* for no other epoch; no key is written twice; and a checkpoint holds the
\* student's parameters and the optimizer state as they were after the last
\* batch of its epoch.
CheckpointCadence ==
    LET keys == {saved[k].epoch : k \in DOMAIN saved}
        completed == {e \in 0..(MaxEpochs - 1) :
                         e < epoch \/ (e = epoch /\ pc \in {"val"} \cup TestPcs)}
        last(e) == (e + 1) * NumBatches
    IN  /\ (err = "none" /\ args.save_period >= 1) =>
              /\ keys \subseteq completed
              /\ \A e \in completed : e \in keys <=> (e + 1) % args.save_period = 0
        /\ \A j, k \in DOMAIN saved : saved[j].epoch = saved[k].epoch => j = k
        /\ \A k \in DOMAIN saved :
              /\ last(saved[k].epoch) <= Len(basic_net.params.updates)
              /\ saved[k].net = [basic_net.params EXCEPT
                     !.updates = SubSeq(@, 1, last(saved[k].epoch))]
              /\ saved[k].optimizer.momentum =
                     SubSeq(optimizer.momentum, 1, last(saved[k].epoch))
              /\ saved[k].optimizer.lr =
                     basic_net.params.updates[last(saved[k].epoch)].lr

\* A finished run of three epochs saving every second one: the checkpoint
\* of epoch 1 is written, those of epochs 0 and 2 are not.
CheckpointCadence_Witness ==
    /\ pc = "done"
    /\ args.epochs = 3
    /\ args.save_period = 2
    /\ Len(saved) = 1
    /\ saved[1].epoch = 1

NonPositiveTempRejected ==
    args.temp <= 0 => (pc \notin TrainPcs /\ loss = NoLoss)

\* C7: an exception in a batch of epoch e ends the run there: nothing runs
\* afterwards, and the checkpoints are those of the epochs before e.
CrashIsFinal ==
    /\ [](err \in BatchPcs =>
            /\ pc = "crashed"
            /\ {saved[k].epoch : k \in DOMAIN saved} =
                  {e \in 0..(epoch - 1) :
                      IF args.save_period = 0 THEN FALSE
                      ELSE (e + 1) % args.save_period = 0}
            /\ \A j, k \in DOMAIN saved : saved[j].epoch = saved[k].epoch => j = k)
    /\ [][err = "none"]_vars

\* A crash in the backward pass of the third epoch, two checkpoints written.
CrashIsFinal_Witness ==
    /\ pc = "crashed"
    /\ err = "backward"
    /\ epoch = 2
    /\ batch_idx = 1
    /\ Len(saved) = 2

\* C9: no step of test changes the student's parameters, the teacher's
\* parameters, the optimizer state or the checkpoints.
TestChangesNothing ==
    [][(pc \in TestPcs) =>
          (/\ basic_net'.params = basic_net.params
           /\ teacher_net'.params = teacher_net.params
           /\ optimizer' = optimizer
           /\ saved' = saved)]_vars

\* The end of an evaluation of a trained student, the attack run on every
\* batch.
TestChangesNothing_Witness ==
    /\ pc = "test_end"
    /\ tally.total = NumTestBatches
    /\ outputs.net = "basic_net"
    /\ Len(basic_net.params.updates) >= NumBatches

\* C10: in every batch of train the gradients are cleared before the attack,
\* the attack is on the student with its current parameters and leaves no
\* gradient, the loss is the current batch's, the optimizer steps on the
\* gradient of that loss alone, and the student's parameters change only in
\* the optimizer step, once per batch.
BatchStepOrder ==
    /\ [](LET n == Len(basic_net.params.updates)
              done == epoch * NumBatches + batch_idx
          IN  /\ pc = "attack" => basic_net.grad.terms = {}
              /\ pc \in {"teacher_fwd", "basic_fwd", "loss"} =>
                    /\ outputs = [net |-> "basic_net", params |-> basic_net.params,
                                  batch |-> ThisBatch]
                    /\ basic_net.grad.terms = {}
              /\ pc = "backward" =>
                    /\ loss.batch = ThisBatch
                    /\ loss.graph = {"basic_net"}
              /\ pc = "step" =>
                    basic_net.grad = [is_none |-> FALSE, terms |-> {ThisBatch}]
              /\ pc \in BatchPcs => n = done
              /\ pc = "accum" => n = done + 1
              /\ \A k \in 1..n :
                    basic_net.params.updates[k].grad =
                        {<<(k - 1) \div NumBatches, (k - 1) % NumBatches>>})
    /\ [][(basic_net.bound /\ basic_net'.params # basic_net.params) =>
              (pc = "step" /\ pc' = "accum")]_vars

\* The optimizer step of the second batch of the second epoch.
BatchStepOrder_Witness ==
    /\ pc = "accum"
    /\ epoch = 1
    /\ batch_idx = 1
    /\ Len(basic_net.params.updates) = NumBatches + 2

\* ------------------------------------------------ properties of the attack
\* C1: after each iteration of the attack (i >= 1, hence also at the return
\* of a call with num_steps >= 1) every element of x is within epsilon of
\* the original element and within [0,1].
PerturbationBounded ==
    (apc \in {"loop", "done"} /\ i >= 1) =>
        \A p \in Pixels :
            /\ x[p] - inputs[p] <= config.epsilon
            /\ inputs[p] - x[p] <= config.epsilon
            /\ 0 <= x[p]
            /\ x[p] <= Scale

\* A call that has returned after its last iteration, with an element held
\* at 1.0 by the clamp although the epsilon-ball reaches beyond it.
PerturbationBounded_Witness ==
    /\ apc = "done"
    /\ config.num_steps >= 1
    /\ i = config.num_steps
    /\ config.epsilon > 0
    /\ \E p \in Pixels : x[p] = Scale /\ inputs[p] + config.epsilon > Scale

\* C8: a call with num_steps = 0 returns the original input plus the drawn
\* noise, unstepped, unprojected and unclamped, each element within epsilon
\* of the original, and has evaluated the model exactly once.
NoStepsReturnsNoise ==
    (apc = "done" /\ config.num_steps = 0) =>
        /\ i = 0
        /\ x = [p \in Pixels |-> inputs[p] + noise[p]]
        /\ \A p \in Pixels : /\ x[p] - inputs[p] <= config.epsilon
                             /\ inputs[p] - x[p] <= config.epsilon
        /\ calls = 1

\* A returned call with num_steps = 0 whose result lies outside [0,1].
NoStepsReturnsNoise_Witness ==
    /\ apc = "done"
    /\ config.num_steps = 0
    /\ calls = 1
    /\ \E p \in Pixels : x[p] < 0 \/ x[p] > Scale

====
